---- MODULE Spec2Model ----
(***************************************************************************)
(* Model of pg_gem_core: the FFI marshaling layer (src/lib.rs), the        *)
(* provider registry (src/embedders/mod.rs), the remote provider           *)
(* (src/embedders/grpc.rs) and the local provider                          *)
(* (src/embedders/fastembed.rs, src/fastembed.rs).                         *)
(***************************************************************************)
EXTENDS Integers, Sequences, FiniteSets, TLC

\* ---------------------------------------------------------------- bounds
NumThreads == 2
MaxInputs == 2
MaxVectors == 2
MaxDim == 1

Threads == 1..NumThreads

\* The thread on which the host calls the C entry points.
FfiThreads == { t \in Threads : t = 1 }

\* ------------------------------------------------------- data at the FFI
\* A raw pointer is NULL, Dangling (the non-null, unallocated pointer of a
\* zero-capacity Vec) or Buffer, the address of the heap buffer the caller's
\* slot refers to (a buffer the slot no longer refers to is unreachable).
NULL == "null"
Dangling == "dangling"
Buffer == "buffer"

\* struct StringSlice { ptr, len }: bytes are the memory ptr points to.
StringSlice(ptr, bytes) == [ptr |-> ptr, len |-> Len(bytes), bytes |-> bytes]

\* The slices a caller hands in: valid UTF-8 ("a" followed by a two-byte
\* sequence), ill-formed UTF-8 ("a" followed by a truncated two-byte
\* sequence), a null pointer with a non-zero length, and a non-null pointer
\* with zero length.
NullSlice == [ptr |-> NULL, len |-> 1, bytes |-> <<>>]
SampleSlices ==
    { StringSlice(Buffer, <<97, 195, 169>>), StringSlice(Buffer, <<97, 195>>),
      NullSlice, StringSlice(Buffer, <<>>) }

InputArrays == UNION { [1..n -> SampleSlices] : n \in 0..MaxInputs }

\* response.embeddings: one row per returned vector; a row is modelled by
\* the number of values it holds (the values themselves are opaque).
Responses == UNION { [1..n -> 0..MaxDim] : n \in 0..MaxVectors }

\* struct EmbeddingBatch { data, n_vectors, dim }
EmbeddingBatch(data, n_vectors, dim) ==
    [data |-> data, n_vectors |-> n_vectors, dim |-> dim]
ZeroBatch == EmbeddingBatch(NULL, 0, 0)

\* No buffer behind the slot's data pointer.
NoBuffer == [len |-> 0, st |-> "unalloc"]

VARIABLES
    crashed,            \* the process died on undefined behaviour / abort
    CLIENT,             \* lib.rs thread_local CLIENT: thread -> 0 (None) | client
    out_batch,          \* the caller's EmbeddingBatch slot
    heap,               \* the buffer out_batch.data refers to: [len, st]
    call,               \* the last call made and what it did
    GRPC_CLIENT,        \* embedders/grpc.rs thread_local CLIENT
    FASTEMBED_MODELS,   \* embedders/fastembed.rs thread_local HashMap<i32, _>
    MODELS_BY_NAME,     \* fastembed.rs thread_local HashMap<String, _>
    features,           \* cargo features compiled in
    EMBEDDERS,          \* the distributed slice, in link order
    GRPC_MODELS         \* the remote provider's allow-list

vars == <<crashed, CLIENT, out_batch, heap, call, GRPC_CLIENT,
          FASTEMBED_MODELS, MODELS_BY_NAME, features, EMBEDDERS, GRPC_MODELS>>

registry == <<features, EMBEDDERS, GRPC_MODELS>>

\* ------------------------------------------------------------- lib.rs
\* std::str::from_utf8, for one- and two-byte sequences (the sample bytes
\* contain no lead byte of a longer sequence).
RECURSIVE from_utf8(_)
from_utf8(b) ==
    IF b = <<>> THEN TRUE
    ELSE IF b[1] < 128 THEN from_utf8(Tail(b))
    ELSE IF b[1] >= 194 /\ b[1] <= 223
         THEN /\ Len(b) >= 2
              /\ b[2] >= 128 /\ b[2] <= 191
              /\ from_utf8(Tail(Tail(b)))
    ELSE FALSE

\* The closure of the map over the input slices.
SliceToStr(s) ==
    IF s.ptr = NULL \/ s.len = 0 THEN [ok |-> FALSE, val |-> <<>>]
    ELSE IF from_utf8(s.bytes) THEN [ok |-> TRUE, val |-> s.bytes]
    ELSE [ok |-> FALSE, val |-> <<>>]

\* .collect() into Result<Vec<&str>, ()>: the first Err wins.
CollectTextSlices(inputs) ==
    IF \E i \in 1..Len(inputs) : ~SliceToStr(inputs[i]).ok
    THEN [ok |-> FALSE, val |-> <<>>]
    ELSE [ok |-> TRUE,
          val |-> [i \in 1..Len(inputs) |-> SliceToStr(inputs[i]).val]]

\* A faulty variant of get_client that connects on every call.
get_client_reconnect(client, connOk) ==
    IF connOk
    THEN [ok |-> TRUE, client |-> IF client < 2 THEN client + 1 ELSE client,
          conn |-> "ok"]
    ELSE [ok |-> FALSE, client |-> client, conn |-> "fail"]

\* get_client / get_grpc_client: connect only while the slot is None; `?`
\* returns the error before the slot is assigned.
get_client(client, connOk) ==
    IF client = 0
    THEN IF connOk
         THEN [ok |-> TRUE, client |-> client + 1, conn |-> "ok"]
         ELSE [ok |-> FALSE, client |-> client, conn |-> "fail"]
    ELSE [ok |-> TRUE, client |-> client, conn |-> "reused"]

\* What a call of the entry point did: its return code, the thread's client
\* slot afterwards, whether it connected / sent the RPC, and the shape it
\* writes to *out_batch when write is TRUE.
Outcome(ret, client, conn, rpc, write, n_vectors, dim) ==
    [ret |-> ret, client |-> client, conn |-> conn, rpc |-> rpc,
     write |-> write, n_vectors |-> n_vectors, dim |-> dim]

\* if inputs.is_null() || out_batch.is_null()
NullCheck(inputsNull, outNull) == inputsNull \/ outNull

\* A faulty variant of the empty-response return that clears the output slot.
EmptyResponseClears(client, conn) ==
    Outcome(-6, client, conn, "ok", TRUE, 0, 0)

\* if response.embeddings.is_empty() { return -6; }
EmptyResponse(client, conn) ==
    Outcome(-6, client, conn, "ok", FALSE, 0, 0)

\* A faulty variant of the validation that connects before it looks at the slices.
generate_connect_first(inputsNull, outNull, inputs, client, connOk, rpcOk, resp) ==
    LET c == get_client(client, connOk)
        text_slices == CollectTextSlices(inputs)
    IN  IF NullCheck(inputsNull, outNull)
        THEN Outcome(-1, client, "none", "none", FALSE, 0, 0)
        ELSE IF ~c.ok
        THEN Outcome(-3, c.client, c.conn, "none", FALSE, 0, 0)
        ELSE IF ~(text_slices.ok /\ Len(text_slices.val) > 0)
        THEN Outcome(-2, c.client, c.conn, "none", FALSE, 0, 0)
        ELSE IF ~rpcOk
        THEN Outcome(-5, c.client, c.conn, "fail", FALSE, 0, 0)
        ELSE IF Len(resp) = 0
        THEN EmptyResponse(c.client, c.conn)
        ELSE Outcome(0, c.client, c.conn, "ok", TRUE, Len(resp), resp[1])

\* generate_embeddings_from_texts, up to the write of *out_batch.
generate_embeddings_from_texts(inputsNull, outNull, inputs, client, connOk, rpcOk, resp) ==
    IF NullCheck(inputsNull, outNull)
    THEN Outcome(-1, client, "none", "none", FALSE, 0, 0)
    ELSE LET text_slices == CollectTextSlices(inputs) IN
    IF ~(text_slices.ok /\ Len(text_slices.val) > 0)
    THEN Outcome(-2, client, "none", "none", FALSE, 0, 0)
    ELSE LET c == get_client(client, connOk) IN
    IF ~c.ok
    THEN Outcome(-3, c.client, c.conn, "none", FALSE, 0, 0)
    ELSE IF ~rpcOk
    THEN Outcome(-5, c.client, c.conn, "fail", FALSE, 0, 0)
    ELSE IF Len(resp) = 0
    THEN EmptyResponse(c.client, c.conn)
    ELSE Outcome(0, c.client, c.conn, "ok", TRUE, Len(resp), resp[1])

\* copy_nonoverlapping(e.values.as_ptr(), .., dim) reads dim values of every
\* row: a row shorter than row 0 is read past its end (undefined behaviour).
ReadsPastRow(resp) ==
    \E i \in 1..Len(resp) : resp[i] < resp[1]

\* Vec::with_capacity(total): no allocation when total = 0.
AllocPtr(total) == IF total = 0 THEN Dangling ELSE Buffer

\* The claims' vocabulary for an input array: a slice is bad when its pointer
\* is null, its length is zero or its bytes are one of the ill-formed
\* samples.
BadSlice(s) == s.ptr = NULL \/ s.len = 0 \/ s.bytes = <<97, 195>>
HasBadSlice(inputs) == \E i \in 1..Len(inputs) : BadSlice(inputs[i])

\* What is remembered of the last call: the operation, the calling thread,
\* the number of input slices and whether one was bad, the null arguments,
\* how the call ended, and what the backend was asked and answered.
CallRecord(op, t, inputs, inputsNull, outNull, done, r, resp) ==
    [op |-> op, t |-> t, n |-> Len(inputs), bad |-> HasBadSlice(inputs),
     inputsNull |-> inputsNull, outNull |-> outNull, done |-> done,
     ret |-> r.ret, conn |-> r.conn, rpc |-> r.rpc,
     nvec |-> Len(resp), dim0 |-> IF Len(resp) = 0 THEN 0 ELSE resp[1]]

NoOutcome == Outcome(0, 0, "none", "none", FALSE, 0, 0)
NoCall == CallRecord("none", 0, <<>>, FALSE, FALSE, "returned", NoOutcome, <<>>)

Generate(t, inputsNull, outNull, inputs, connOk, rpcOk, resp, ub) ==
    /\ ~crashed
    /\ LET r == generate_embeddings_from_texts(inputsNull, outNull, inputs,
                                               CLIENT[t], connOk, rpcOk, resp)
           total == r.n_vectors * r.dim
       IN  /\ CLIENT' = [CLIENT EXCEPT ![t] = r.client]
           /\ IF ub = "crash"
              THEN /\ crashed' = TRUE
                   /\ call' = CallRecord("generate", t, inputs, inputsNull,
                                         outNull, "crashed", r, resp)
                   /\ UNCHANGED <<out_batch, heap>>
              ELSE /\ crashed' = FALSE
                   /\ call' = CallRecord("generate", t, inputs, inputsNull,
                                         outNull, "returned", r, resp)
                   /\ IF r.write
                      THEN /\ out_batch' = EmbeddingBatch(AllocPtr(total),
                                                          r.n_vectors, r.dim)
                           /\ heap' = IF total = 0 THEN NoBuffer
                                      ELSE [len |-> total, st |-> "live"]
                      ELSE UNCHANGED <<out_batch, heap>>
    /\ UNCHANGED <<GRPC_CLIENT, FASTEMBED_MODELS, MODELS_BY_NAME, registry>>

\* free_embedding_batch: drops Vec::from_raw_parts(data, total, total) when
\* data is non-null and both shape fields are positive; *batch is only read.
free_embedding_batch(batchNull, batch) ==
    IF batchNull THEN [drop |-> FALSE, total |-> 0, batch |-> batch]
    ELSE IF batch.data # NULL /\ batch.n_vectors > 0 /\ batch.dim > 0
    THEN [drop |-> TRUE, total |-> batch.n_vectors * batch.dim,
          batch |-> batch]
    ELSE [drop |-> FALSE, total |-> 0, batch |-> batch]

\* Dropping a live buffer frees it; dropping a freed one is a double free
\* (undefined behaviour): the allocator aborts or its heap is corrupted.
Free(batchNull, ub) ==
    /\ ~crashed
    /\ LET f == free_embedding_batch(batchNull, out_batch)
           double == f.drop /\ heap.st # "live"
       IN  /\ out_batch' = f.batch
           /\ IF double THEN ub \in {"corrupt", "crash"} ELSE ub = "none"
           /\ crashed' = (double /\ ub = "crash")
           /\ heap' = IF ~f.drop THEN heap
                      ELSE IF double
                      THEN [heap EXCEPT !.st = "double_freed"]
                      ELSE [heap EXCEPT !.st = "freed"]
           /\ call' = [op |-> "free", batchNull |-> batchNull,
                       dropped |-> f.drop,
                       done |-> IF double /\ ub = "crash" THEN "crashed"
                                ELSE "returned"]
    /\ UNCHANGED <<CLIENT, GRPC_CLIENT, FASTEMBED_MODELS, MODELS_BY_NAME, registry>>

\* ------------------------------------------------- embedders/mod.rs
AllFeatures == {"fastembed", "grpc"}

\* Option<T>
None == [some |-> FALSE, val |-> 0]
Some(v) == [some |-> TRUE, val |-> v]

\* enum EmbedMethod { FastEmbed = 0, Grpc = 1 }, each variant behind its
\* feature; Embedder::method() of the two providers.
EmbedMethod_FastEmbed == 0
EmbedMethod_Grpc == 1
method(e) == IF e = "fastembed" THEN EmbedMethod_FastEmbed ELSE EmbedMethod_Grpc

\* EMBEDDERS.iter().find(|e| e.method() as i32 == method).copied()
get_embedder_by_method_id(embedders, method_id) ==
    LET hits == { i \in 1..Len(embedders) : method(embedders[i]) = method_id }
    IN  IF hits = {} THEN None
        ELSE Some(embedders[CHOOSE i \in hits : \A j \in hits : i <= j])

\* A faulty variant of validate_method that ignores the feature gates.
validate_method_ungated(name, feats) ==
    IF name = "fastembed" THEN Some(EmbedMethod_FastEmbed)
    ELSE IF name = "remote" THEN Some(EmbedMethod_Grpc)
    ELSE None

\* match method { "fastembed" => .., "remote" => .., _ => None }, each arm
\* behind its feature.
validate_method(name, feats) ==
    IF name = "fastembed" /\ "fastembed" \in feats
    THEN Some(EmbedMethod_FastEmbed)
    ELSE IF name = "remote" /\ "grpc" \in feats
    THEN Some(EmbedMethod_Grpc)
    ELSE None

\* --------------------------------------------- embedders/fastembed.rs
\* const MODELS: the allow-list of (id, EmbeddingModel) pairs.
MODELS == << <<0, "AllMiniLML6V2">>, <<1, "BGELargeENV15">> >>
AllowedIds == { MODELS[i][1] : i \in 1..Len(MODELS) }

\* EmbeddingModel::from_str of the embedding library: the names it knows,
\* of which the third is no member of MODELS.
ModelNames ==
    {"all-MiniLM-L6-v2", "bge-large-en-v1.5", "bge-small-en-v1.5", "no-such-model"}
EmbeddingModel_from_str(model) ==
    IF model = "all-MiniLM-L6-v2" THEN Some("AllMiniLML6V2")
    ELSE IF model = "bge-large-en-v1.5" THEN Some("BGELargeENV15")
    ELSE IF model = "bge-small-en-v1.5" THEN Some("BGESmallENV15")
    ELSE None

\* MODELS.iter().find(|(id, _)| *id == model_id).map(|(_, model)| model)
get_embedding_model(model_id) ==
    LET hits == { i \in 1..Len(MODELS) : MODELS[i][1] = model_id }
    IN  IF hits = {} THEN None
        ELSE Some(MODELS[CHOOSE i \in hits : \A j \in hits : i <= j][2])

\* A faulty variant of get_model_id that accepts every model the library parses.
FastEmbedder_get_model_id_any(model) ==
    LET parsed == EmbeddingModel_from_str(model)
    IN  IF ~parsed.some THEN None ELSE Some(0)

\* FastEmbedder::get_model_id
FastEmbedder_get_model_id(model) ==
    LET parsed == EmbeddingModel_from_str(model)
        hits == { i \in 1..Len(MODELS) : parsed.some /\ MODELS[i][2] = parsed.val }
    IN  IF ~parsed.some \/ hits = {} THEN None
        ELSE Some(MODELS[CHOOSE i \in hits : \A j \in hits : i <= j][1])

\* FastEmbedder::supports_model_id
supports_model_id(model_id) == get_embedding_model(model_id).some

\* The remote provider's get_model_id: membership in its allow-list.
GrpcEmbedder_get_model_id(model) ==
    IF model \in GRPC_MODELS THEN Some(0) ELSE None

get_model_id(e, model) ==
    IF e = "fastembed" THEN FastEmbedder_get_model_id(model)
    ELSE GrpcEmbedder_get_model_id(model)

\* EmbedderRegistry::validate_model
validate_model(embedders, method_id, model) ==
    LET embedder == get_embedder_by_method_id(embedders, method_id)
    IN  IF ~embedder.some THEN None ELSE get_model_id(embedder.val, model)

\* The boundary's lookup steps: an unresolved method code is -4, a model the
\* resolved provider does not allow is -5.
DispatchCode(embedders, method_id, model) ==
    LET embedder == get_embedder_by_method_id(embedders, method_id)
    IN  IF ~embedder.some THEN -4
        ELSE IF ~get_model_id(embedder.val, model).some THEN -5
        ELSE 0

\* A model instance: the thread that created it and how many instances the
\* cache entry has held so far.
NoInstance == [by |-> 0, gen |-> 0]
Instance(t, old) == [by |-> t, gen |-> IF old.gen < 2 THEN old.gen + 1 ELSE old.gen]

\* A faulty variant of thread_local!: one static shared by all threads.
SharedStatic(t) == 1

\* thread_local!: each thread reads and writes its own copy.
ThreadLocal(t) == t

\* models.entry(model_id).or_insert_with(|| try_new(..).expect(..)): an
\* absent entry is instantiated; a failed instantiation panics.
or_insert_with(models, model_id, t, initOk) ==
    IF models[model_id] # NoInstance
    THEN [panic |-> FALSE, models |-> models, created |-> FALSE]
    ELSE IF initOk
    THEN [panic |-> FALSE,
          models |-> [models EXCEPT ![model_id] = Instance(t, models[model_id])],
          created |-> TRUE]
    ELSE [panic |-> TRUE, models |-> models, created |-> FALSE]

LocalCall(op, t, key, done, ok, created, used) ==
    [op |-> op, t |-> t, key |-> key, done |-> done, ok |-> ok,
     created |-> created, used |-> used]

\* FastEmbedder::embed on the calling thread's FASTEMBED_MODELS.
fast_embed(models, model_id, t, initOk, embedOk) ==
    IF ~get_embedding_model(model_id).some
    THEN [done |-> "returned", ok |-> FALSE, models |-> models,
          created |-> FALSE, used |-> NoInstance]
    ELSE LET e == or_insert_with(models, model_id, t, initOk) IN
    IF e.panic
    THEN [done |-> "panicked", ok |-> FALSE, models |-> e.models,
          created |-> FALSE, used |-> NoInstance]
    ELSE [done |-> "returned", ok |-> embedOk, models |-> e.models,
          created |-> e.created, used |-> e.models[model_id]]

FastEmbed(t, model_id, initOk, embedOk) ==
    /\ ~crashed
    /\ LET k == ThreadLocal(t)
           r == fast_embed(FASTEMBED_MODELS[k], model_id, t, initOk, embedOk)
       IN  /\ FASTEMBED_MODELS' = [FASTEMBED_MODELS EXCEPT ![k] = r.models]
           /\ call' = LocalCall("fast_embed", t, model_id, r.done, r.ok,
                                r.created, r.used)
    /\ UNCHANGED <<crashed, CLIENT, out_batch, heap, GRPC_CLIENT,
                   MODELS_BY_NAME, registry>>

SupportsModelId(t, model_id) ==
    /\ ~crashed
    /\ call' = LocalCall("supports_model_id", t, model_id, "returned",
                         supports_model_id(model_id), FALSE, NoInstance)
    /\ UNCHANGED <<crashed, CLIENT, out_batch, heap, GRPC_CLIENT,
                   FASTEMBED_MODELS, MODELS_BY_NAME, registry>>

\* ------------------------------------------------------ fastembed.rs
\* The model names the by-name cache is exercised with.
NameSamples == {"all-MiniLM-L6-v2", "no-such-model"}
ParsedNames == { m \in NameSamples : EmbeddingModel_from_str(m).some }

\* generate_embeddings_fastembed: a cached instance is used as is; otherwise
\* the name is parsed and the model instantiated, each failure returning Err
\* before the insert.
generate_embeddings_fastembed(models, model, t, initOk, embedOk) ==
    IF model \in DOMAIN models /\ models[model] # NoInstance
    THEN [done |-> "returned", ok |-> embedOk, models |-> models,
          created |-> FALSE, used |-> models[model]]
    ELSE IF ~EmbeddingModel_from_str(model).some \/ ~initOk
    THEN [done |-> "returned", ok |-> FALSE, models |-> models,
          created |-> FALSE, used |-> NoInstance]
    ELSE LET inserted == [models EXCEPT ![model] = Instance(t, models[model])]
         IN  [done |-> "returned", ok |-> embedOk, models |-> inserted,
              created |-> TRUE, used |-> inserted[model]]

GenerateEmbeddingsFastembed(t, model, initOk, embedOk) ==
    /\ ~crashed
    /\ LET k == ThreadLocal(t)
           r == generate_embeddings_fastembed(MODELS_BY_NAME[k], model, t,
                                              initOk, embedOk)
       IN  /\ MODELS_BY_NAME' = [MODELS_BY_NAME EXCEPT ![k] = r.models]
           /\ call' = LocalCall("generate_embeddings_fastembed", t, model,
                                r.done, r.ok, r.created, r.used)
    /\ UNCHANGED <<crashed, CLIENT, out_batch, heap, GRPC_CLIENT,
                   FASTEMBED_MODELS, registry>>

\* ------------------------------------------------- embedders/grpc.rs
RECURSIVE SumRows(_)
SumRows(resp) == IF resp = <<>> THEN 0 ELSE resp[1] + SumRows(Tail(resp))

\* GrpcEmbedder::embed: `?` on the client and on the RPC, embeddings[0]
\* panics on an empty list, extend_from_slice appends every row whole.
grpc_embed(client, connOk, rpcOk, resp) ==
    LET c == get_client(client, connOk) IN
    IF ~c.ok
    THEN [done |-> "returned", ok |-> FALSE, client |-> c.client,
          conn |-> c.conn, rpc |-> "none", flat |-> 0, n_vectors |-> 0, dim |-> 0]
    ELSE IF ~rpcOk
    THEN [done |-> "returned", ok |-> FALSE, client |-> c.client,
          conn |-> c.conn, rpc |-> "fail", flat |-> 0, n_vectors |-> 0, dim |-> 0]
    ELSE IF Len(resp) = 0
    THEN [done |-> "panicked", ok |-> FALSE, client |-> c.client,
          conn |-> c.conn, rpc |-> "ok", flat |-> 0, n_vectors |-> 0, dim |-> 0]
    ELSE [done |-> "returned", ok |-> TRUE, client |-> c.client,
          conn |-> c.conn, rpc |-> "ok", flat |-> SumRows(resp),
          n_vectors |-> Len(resp), dim |-> resp[1]]

GrpcEmbed(t, n, connOk, rpcOk, resp) ==
    /\ ~crashed
    /\ LET k == ThreadLocal(t)
           r == grpc_embed(GRPC_CLIENT[k], connOk, rpcOk, resp)
       IN  /\ GRPC_CLIENT' = [GRPC_CLIENT EXCEPT ![k] = r.client]
           /\ call' = [op |-> "grpc_embed", t |-> t, n |-> n, done |-> r.done,
                       ok |-> r.ok, conn |-> r.conn, rpc |-> r.rpc,
                       flat |-> r.flat, n_vectors |-> r.n_vectors, dim |-> r.dim]
    /\ UNCHANGED <<crashed, CLIENT, out_batch, heap, FASTEMBED_MODELS,
                   MODELS_BY_NAME, registry>>

\* ------------------------------------------------------ registry calls
MethodNames == {"fastembed", "remote", "local", "grpc", ""}
MethodCodes == {-1, 0, 1, 2, 99}

ValidateMethod(name) ==
    /\ call' = [op |-> "validate_method", name |-> name,
                res |-> validate_method(name, features),
                found |-> IF validate_method(name, features).some
                          THEN get_embedder_by_method_id(EMBEDDERS,
                                   validate_method(name, features).val)
                          ELSE None]
    /\ UNCHANGED <<crashed, CLIENT, out_batch, heap, GRPC_CLIENT,
                   FASTEMBED_MODELS, MODELS_BY_NAME, registry>>

GetEmbedderByMethodId(method_id) ==
    /\ call' = [op |-> "get_embedder_by_method_id", method_id |-> method_id,
                res |-> get_embedder_by_method_id(EMBEDDERS, method_id)]
    /\ UNCHANGED <<crashed, CLIENT, out_batch, heap, GRPC_CLIENT,
                   FASTEMBED_MODELS, MODELS_BY_NAME, registry>>

ValidateModel(method_id, model) ==
    /\ call' = [op |-> "validate_model", method_id |-> method_id,
                model |-> model,
                res |-> validate_model(EMBEDDERS, method_id, model)]
    /\ UNCHANGED <<crashed, CLIENT, out_batch, heap, GRPC_CLIENT,
                   FASTEMBED_MODELS, MODELS_BY_NAME, registry>>

Dispatch(method_id, model) ==
    /\ call' = [op |-> "dispatch", method_id |-> method_id, model |-> model,
                ret |-> DispatchCode(EMBEDDERS, method_id, model)]
    /\ UNCHANGED <<crashed, CLIENT, out_batch, heap, GRPC_CLIENT,
                   FASTEMBED_MODELS, MODELS_BY_NAME, registry>>

\* --------------------------------------------------- specifications
InitCommon ==
    /\ crashed = FALSE
    /\ CLIENT = [t \in Threads |-> 0]
    /\ out_batch = ZeroBatch
    /\ heap = NoBuffer
    /\ call = NoCall
    /\ GRPC_CLIENT = [t \in Threads |-> 0]
    /\ FASTEMBED_MODELS = [t \in Threads |-> [m \in AllowedIds |-> NoInstance]]
    /\ MODELS_BY_NAME = [t \in Threads |-> [m \in ParsedNames |-> NoInstance]]

\* The build with every feature on, the providers linked in declaration
\* order.
InitFull ==
    /\ InitCommon
    /\ features = AllFeatures
    /\ EMBEDDERS = <<"fastembed", "grpc">>
    /\ GRPC_MODELS = {}

\* The environment of one call: the arguments, and the backend's answers to
\* the steps the call reaches (a step not reached has no answer to choose).
ValidInputs(inputsNull, outNull, inputs) ==
    /\ ~NullCheck(inputsNull, outNull)
    /\ CollectTextSlices(inputs).ok /\ Len(inputs) > 0

GenerateStep ==
    \E t \in FfiThreads, inputsNull \in BOOLEAN, outNull \in BOOLEAN :
      \E inputs \in (IF inputsNull THEN {<<>>} ELSE InputArrays) :
        LET valid == ValidInputs(inputsNull, outNull, inputs) IN
        \E connOk \in (IF valid /\ CLIENT[t] = 0 THEN BOOLEAN ELSE {TRUE}) :
          \E rpcOk \in (IF valid /\ connOk THEN BOOLEAN ELSE {TRUE}) :
            \E resp \in (IF valid /\ connOk /\ rpcOk THEN Responses ELSE {<<>>}) :
              \E ub \in (IF ReadsPastRow(resp) THEN {"garbage", "crash"}
                                               ELSE {"none"}) :
                Generate(t, inputsNull, outNull, inputs, connOk, rpcOk, resp, ub)

FreeStep ==
    \E batchNull \in BOOLEAN, ub \in {"none", "corrupt", "crash"} :
        Free(batchNull, ub)

NextFfi == GenerateStep \/ FreeStep

SpecFfi == InitFull /\ [][NextFfi]_vars

\* Any build: a non-empty feature set (an enum needs a variant), the
\* providers of the slice in either link order, and any allow-list of the
\* remote provider.
Orders(feats) ==
    { o \in UNION { [1..n -> feats] : n \in 0..Cardinality(feats) } :
        /\ Len(o) = Cardinality(feats)
        /\ \A f \in feats : \E i \in 1..Len(o) : o[i] = f }

InitRegistry ==
    /\ InitCommon
    /\ features \in (SUBSET AllFeatures) \ {{}}
    /\ EMBEDDERS \in Orders(features)
    /\ GRPC_MODELS \in SUBSET ModelNames

NextRegistry ==
    \/ \E name \in MethodNames : ValidateMethod(name)
    \/ \E m \in MethodCodes : GetEmbedderByMethodId(m)
    \/ \E m \in MethodCodes, model \in ModelNames : ValidateModel(m, model)
    \/ \E m \in MethodCodes, model \in ModelNames : Dispatch(m, model)

SpecRegistry == InitRegistry /\ [][NextRegistry]_vars

GrpcEmbedStep ==
    \E t \in Threads, n \in 1..MaxInputs :
      \E connOk \in (IF GRPC_CLIENT[ThreadLocal(t)] = 0 THEN BOOLEAN ELSE {TRUE}) :
        \E rpcOk \in (IF connOk THEN BOOLEAN ELSE {TRUE}) :
          \E resp \in (IF connOk /\ rpcOk THEN Responses ELSE {<<>>}) :
            GrpcEmbed(t, n, connOk, rpcOk, resp)

NextRemote == GrpcEmbedStep

SpecRemote == InitFull /\ [][NextRemote]_vars

\* The model ids callers pass: the allow-listed ones and two others.
ModelIds == AllowedIds \cup {2, -1}

FastEmbedStep(T) ==
    \E t \in T, m \in ModelIds, initOk \in BOOLEAN, embedOk \in BOOLEAN :
        FastEmbed(t, m, initOk, embedOk)

NextLocal ==
    \/ FastEmbedStep(Threads)
    \/ \E t \in Threads, m \in NameSamples, initOk \in BOOLEAN, embedOk \in BOOLEAN :
        GenerateEmbeddingsFastembed(t, m, initOk, embedOk)

SpecLocal == InitFull /\ [][NextLocal]_vars

NextReject ==
    \/ GenerateStep
    \/ FastEmbedStep(FfiThreads)
    \/ \E t \in FfiThreads, m \in ModelIds : SupportsModelId(t, m)

SpecReject == InitFull /\ [][NextReject]_vars

\* ------------------------------------------------------------ claims
\* The calls of the entry points that returned to the caller.
GenerateReturned(c) == c.op = "generate" /\ c.done = "returned"

\* C1: a free_embedding_batch that freed the buffer leaves the slot zeroed,
\* no buffer is ever freed twice, and no free crashes.
C1_FreeZeroesAndFreesOnce ==
    /\ (call.op = "free" /\ call.dropped) => out_batch = ZeroBatch
    /\ heap.st # "double_freed"
    /\ call.op = "free" => call.done = "returned"

\* C2: a generate call that returns a non-zero code leaves the output slot,
\* and the buffer behind it, as they were; the slot changes only in a call
\* that returns 0.
C2_SlotUntouchedOnError ==
    [][ call'.op = "generate" =>
          /\ (call'.done = "returned" /\ call'.ret # 0)
                => (out_batch' = out_batch /\ heap' = heap)
          /\ (out_batch' # out_batch)
                => (call'.done = "returned" /\ call'.ret = 0) ]_vars

\* C2 witness: a generate call failed at the backend (empty response) while
\* the slot held a batch written by an earlier call.
C2_Witness ==
    /\ GenerateReturned(call) /\ call.ret = -6
    /\ out_batch.data = Buffer /\ heap.st = "live"

\* C3: after a generate call that returned 0 the slot's vector_count is the
\* number of input texts, its dimension is positive and the buffer holds
\* vector_count * dimension values.
C3_BatchShape ==
    (GenerateReturned(call) /\ call.ret = 0) =>
        /\ out_batch.n_vectors = call.n
        /\ out_batch.dim > 0
        /\ out_batch.data = Buffer
        /\ heap.len = out_batch.n_vectors * out_batch.dim

\* The backend failed: the connection, the RPC, or a response with no
\* vectors or with vectors of no values.
BackendFailed(c) ==
    \/ c.conn = "fail"
    \/ c.rpc = "fail"
    \/ (c.rpc = "ok" /\ (c.nvec = 0 \/ c.dim0 = 0))

\* C4: a failed connection, a failed RPC, a response with no vectors and a
\* response whose vectors have no values each make generate return -6, and
\* none of them ends the call without a return code.
C4_UniformFailureCode ==
    (call.op = "generate" /\ BackendFailed(call)) =>
        (call.done = "returned" /\ call.ret = -6)

\* C5: with non-null outer pointers an empty input array returns -2 and a
\* non-empty array with a bad slice returns -3.
C5_EmptyVersusInvalid ==
    (GenerateReturned(call) /\ ~call.inputsNull /\ ~call.outNull) =>
        /\ call.n = 0 => call.ret = -2
        /\ (call.n > 0 /\ call.bad) => call.ret = -3

\* The method codes of the providers compiled in, and the models each
\* provider allows, as the claims name them.
Registered ==
    {c \in {0} : "fastembed" \in features} \cup {c \in {1} : "grpc" \in features}
Allowed(method_id, model) ==
    \/ method_id = 0 /\ model \in {"all-MiniLM-L6-v2", "bge-large-en-v1.5"}
    \/ method_id = 1 /\ model \in GRPC_MODELS

ResolvesToOne(c) ==
    /\ c.found.some
    /\ method(c.found.val) = c.res.val
    /\ Cardinality({ i \in 1..Len(EMBEDDERS) : method(EMBEDDERS[i]) = c.res.val }) = 1

\* C7 as stated: validate_method knows exactly "local" and "remote" (each
\* when its provider is compiled in), and a returned code resolves to one
\* provider with that code.
C7_LocalAndRemote ==
    call.op = "validate_method" =>
        /\ call.res.some <=>
              \/ call.name = "local" /\ "fastembed" \in features
              \/ call.name = "remote" /\ "grpc" \in features
        /\ call.res.some => ResolvesToOne(call)

\* C7 amended: validate_method knows exactly "fastembed" and "remote" (each
\* when its provider is compiled in), and a returned code resolves to one
\* provider with that code.
C7_FastembedAndRemote ==
    call.op = "validate_method" =>
        /\ call.res.some <=>
              \/ call.name = "fastembed" /\ "fastembed" \in features
              \/ call.name = "remote" /\ "grpc" \in features
        /\ call.res.some => ResolvesToOne(call)

\* C7 witness: "fastembed" was validated in a build with both providers and
\* its code resolved.
C7_Witness ==
    /\ call.op = "validate_method" /\ call.name = "fastembed"
    /\ features = AllFeatures /\ call.res.some /\ call.found.some

\* C8: a remote embed call connects exactly when its thread's client slot is
\* empty; a failed connect leaves the slot empty, a successful one fills it;
\* a filled slot never changes and is reused, whatever the RPC does.
C8_ClientPerThread ==
    [][ \A t \in Threads :
          /\ GRPC_CLIENT[t] # 0 => GRPC_CLIENT'[t] = GRPC_CLIENT[t]
          /\ (call'.op = "grpc_embed" /\ call'.t = t) =>
                /\ call'.conn \in {"ok", "fail"} <=> GRPC_CLIENT[t] = 0
                /\ call'.conn = "fail" => GRPC_CLIENT'[t] = 0
                /\ call'.conn = "ok" => GRPC_CLIENT'[t] # 0
                /\ GRPC_CLIENT[t] # 0 => call'.conn = "reused"
          /\ (call'.op = "grpc_embed" /\ call'.t # t) =>
                GRPC_CLIENT'[t] = GRPC_CLIENT[t] ]_vars

\* C8 witness: a call reused its thread's client and the RPC on it failed,
\* while another thread has no client yet.
C8_Witness ==
    /\ call.op = "grpc_embed" /\ call.conn = "reused" /\ call.rpc = "fail"
    /\ GRPC_CLIENT[call.t] # 0
    /\ \E u \in Threads : GRPC_CLIENT[u] = 0

\* The two model caches of a thread.
Caches(t) == <<FASTEMBED_MODELS[t], MODELS_BY_NAME[t]>>
LocalOps == {"fast_embed", "generate_embeddings_fastembed"}
CacheEntry(fast, byName, c) ==
    IF c.op = "fast_embed"
    THEN (IF c.key \in DOMAIN fast[c.t] THEN fast[c.t][c.key] ELSE NoInstance)
    ELSE (IF c.key \in DOMAIN byName[c.t] THEN byName[c.t][c.key] ELSE NoInstance)

\* Every cached instance was created by the thread whose cache holds it and
\* is the first instance of its entry.
OwnInstances(cache) ==
    \A t \in Threads : \A m \in DOMAIN cache[t] :
        cache[t][m] # NoInstance => (cache[t][m].by = t /\ cache[t][m].gen = 1)

\* C9: every cache entry is an instance its own thread created, a cached
\* instance is never replaced, a call instantiates only when its thread has
\* no entry for the model, it uses its thread's entry, and it leaves the
\* other threads' caches alone; threads that all hold the model hold
\* pairwise different instances.
C9_CachePerThreadAndModel ==
    /\ [](OwnInstances(FASTEMBED_MODELS) /\ OwnInstances(MODELS_BY_NAME))
    /\ [](\A m \in AllowedIds :
            Cardinality({ FASTEMBED_MODELS[t][m] : t \in Threads } \ {NoInstance})
              = Cardinality({ t \in Threads : FASTEMBED_MODELS[t][m] # NoInstance }))
    /\ [][ call'.op \in LocalOps =>
             /\ \A t \in Threads : \A m \in DOMAIN FASTEMBED_MODELS[t] :
                  FASTEMBED_MODELS[t][m] # NoInstance =>
                    FASTEMBED_MODELS'[t][m] = FASTEMBED_MODELS[t][m]
             /\ \A t \in Threads : \A m \in DOMAIN MODELS_BY_NAME[t] :
                  MODELS_BY_NAME[t][m] # NoInstance =>
                    MODELS_BY_NAME'[t][m] = MODELS_BY_NAME[t][m]
             /\ call'.created =>
                  CacheEntry(FASTEMBED_MODELS, MODELS_BY_NAME, call') = NoInstance
             /\ call'.used # NoInstance =>
                  /\ call'.used.by = call'.t
                  /\ call'.used = CacheEntry(FASTEMBED_MODELS', MODELS_BY_NAME', call')
             /\ \A t \in Threads \ {call'.t} : Caches(t)' = Caches(t) ]_vars

\* C9 witness: every thread holds its own instance of model 0 and the last
\* call reused the caller's.
C9_Witness ==
    /\ \A t \in Threads : FASTEMBED_MODELS[t][0] # NoInstance
    /\ call.op = "fast_embed" /\ call.key = 0
    /\ ~call.created /\ call.used # NoInstance

\* A generate call whose arguments fail validation, as the claim names them.
Rejected(c) ==
    c.op = "generate" /\ (c.inputsNull \/ c.outNull \/ c.n = 0 \/ c.bad)

\* C10: a generate call that fails validation makes no connection attempt,
\* sends no RPC and changes no cache; a local embed call with a model id off
\* the allow-list fails, instantiates nothing and changes no cache;
\* supports_model_id answers membership and changes no cache.
C10_RejectedCallsDoNoWork ==
    [][ /\ Rejected(call') =>
              /\ call'.conn = "none" /\ call'.rpc = "none"
              /\ UNCHANGED <<CLIENT, GRPC_CLIENT, FASTEMBED_MODELS, MODELS_BY_NAME>>
        /\ (call'.op = "fast_embed" /\ call'.key \notin {0, 1}) =>
              /\ ~call'.ok /\ ~call'.created /\ call'.done = "returned"
              /\ UNCHANGED <<CLIENT, GRPC_CLIENT, FASTEMBED_MODELS, MODELS_BY_NAME>>
        /\ call'.op = "supports_model_id" =>
              /\ call'.ok <=> call'.key \in {0, 1}
              /\ UNCHANGED <<CLIENT, GRPC_CLIENT, FASTEMBED_MODELS, MODELS_BY_NAME>>
      ]_vars

\* C10 witness: a generate call with a bad slice was rejected on a thread
\* that has no client yet and holds a cached model.
C10_Witness ==
    /\ Rejected(call) /\ call.bad /\ call.done = "returned"
    /\ \E t \in FfiThreads :
         CLIENT[t] = 0 /\ FASTEMBED_MODELS[t][0] # NoInstance

====
